---- MODULE Spec2Model ----
(***************************************************************************)
(* Bricklayer: a model viewer that reloads its models and their companion  *)
(* aseprite textures when the files change on disk.                        *)
(*                                                                         *)
(* Three specifications, one per part of the program:                      *)
(*   SpecPath   path_get_corresponding_texture_file (src/src/path.c)       *)
(*   SpecArgs   the start of main: arguments, stdin, the count check       *)
(*   Spec       the rest of main: startup load, the frame loop with its    *)
(*              modification check and reload, shutdown                    *)
(* Characters are byte values (0 is NUL); a C string is the sequence of    *)
(* its bytes before the terminator.                                        *)
(***************************************************************************)
EXTENDS Integers, Sequences, FiniteSets

VARIABLES
    \* ---- path.c ----
    src,            \* the argument of path_get_corresponding_texture_file
    garbage,        \* what malloc'ed memory holds before it is written
    result,         \* what the call did (PathPending before the call)
    \* ---- main, shared ----
    pc,             \* where main is
    model_filepaths,\* StringVector model_filepaths
    \* ---- main, arguments and stdin ----
    argv,           \* argv[1..argc-1]
    stream,         \* everything stdin will deliver
    unread,         \* the part of stream not read yet
    eof,            \* feof(stdin)
    input,          \* input[0..input_used-1]
    exit_status,    \* main's return value, NotExited while it runs
    window,         \* InitWindow was called
    \* ---- main, the render loop ----
    mtime,          \* the file system: each watched file's st_mtim.tv_sec
    last_modified,  \* uint64_t last_modified
    models,         \* ModelVector models
    time_since_last_modified_check,     \* in milliseconds
    next_handle,    \* renderer: the next resource handle it hands out
    released,       \* renderer: the handles released so far
    touches,        \* file modifications so far
    seen_mtime,     \* history: mtime as the last scan saw it
    chk,            \* history: what the last modification check did
    loader_args,    \* history: the paths given to aseprite_load_as_image
    drawn           \* history: the model handles the last draw pass drew

pathVars == <<src, garbage, result>>
argsVars == <<argv, stream, unread, eof, input, exit_status, window>>
loopVars == <<mtime, last_modified, models, time_since_last_modified_check,
              next_handle, released, touches, seen_mtime, chk, loader_args, drawn>>
vars == <<pathVars, pc, model_filepaths, argsVars, loopVars>>

NUL == 0
\* "aseprite"
ASEPRITE == <<97, 115, 101, 112, 114, 105, 116, 101>>
\* '.', 'b', 'j', 'o'
PathChars == {46, 98, 106, 111}

MaxPathLen == 5

RECURSIVE SeqsUpTo(_, _)
SeqsUpTo(S, n) ==
    IF n = 0 THEN {<<>>}
    ELSE LET shorter == SeqsUpTo(S, n - 1)
         IN  shorter \cup {Append(s, c) : s \in {t \in shorter : Len(t) = n - 1}, c \in S}

\* A char * : NULL, or a pointer to a C string.
NULL == [null |-> TRUE, str |-> <<>>]
Ptr(s) == [null |-> FALSE, str |-> s]

(***************************************************************************)
(* Memory: one heap block.  writes is the log of the stores into it, in    *)
(* order, as <<index, byte>>; reads the indices read.  A store or a read   *)
(* outside 0..size-1 is logged all the same and leaves bytes alone.  An    *)
(* index below 0 stands for the size_t value that wrapped around.          *)
(***************************************************************************)
malloc(n, g) ==
    [size |-> n, bytes |-> [i \in 0..(n - 1) |-> g], writes |-> <<>>, reads |-> {}]

store(m, idx, v) ==
    [m EXCEPT !.bytes = IF idx \in DOMAIN m.bytes
                        THEN [m.bytes EXCEPT ![idx] = v] ELSE m.bytes,
              !.writes = Append(m.writes, <<idx, v>>)]

RECURSIVE storeAll(_, _, _)
\* Stores the bytes of s at at, at+1, ...
storeAll(m, at, s) ==
    IF s = <<>> THEN m ELSE storeAll(store(m, at, Head(s)), at + 1, Tail(s))

memcpy(m, s, n) == storeAll(m, 0, SubSeq(s, 1, n))

\* Index of the first NUL of the block; the block's size when it holds none
\* (strlen then runs off its end).
FirstNul(m) ==
    IF \E i \in DOMAIN m.bytes : m.bytes[i] = NUL
    THEN CHOOSE i \in DOMAIN m.bytes :
            m.bytes[i] = NUL /\ \A j \in 0..(i - 1) : m.bytes[j] # NUL
    ELSE m.size

strcat(m, s) ==
    LET k == FirstNul(m)
    IN  storeAll([m EXCEPT !.reads = m.reads \cup (0..k)], k, Append(s, NUL))

\* The C string a block holds.
CStr(m) == [i \in 1..FirstNul(m) |-> m.bytes[i - 1]]

strlen(s) == Len(s)

TooShortMut(length) == length < 2
TooShort(length) == length < 3

TargetLengthMut(length) == length + 5
TargetLength(length) == length + 6

TerminatorIndexMut(target_length) == target_length - 8
TerminatorIndex(target_length) == target_length - 9

\* ret: the returned pointer; block: the block malloc gave, NoBlock if malloc
\* was not called.
NoBlock == malloc(0, NUL)
path_get_corresponding_texture_file_full(s, g) ==
    LET length == strlen(s)
    IN  IF TooShort(length)
        THEN [done |-> TRUE, ret |-> NULL, allocated |-> FALSE, block |-> NoBlock]
        ELSE LET target_length == TargetLength(length)
                 d0 == malloc(target_length, g)
                 d1 == memcpy(d0, s, length)
                 d2 == store(d1, TerminatorIndex(target_length), NUL)
                 d3 == strcat(d2, ASEPRITE)
             IN  [done |-> TRUE, ret |-> Ptr(CStr(d3)), allocated |-> TRUE,
                  block |-> d3]

\* "ab", "m.obj", "n.obj": the model paths main is run with below.
ShortPath == <<97, 98>>
PathM == <<109, 46, 111, 98, 106>>
PathN == <<110, 46, 111, 98, 106>>

\* The function's value on main's paths, computed once.
CompanionTable ==
    [s \in {ShortPath, PathM, PathN} |->
        path_get_corresponding_texture_file_full(s, NUL).ret]

\* The returned pointer alone, as main uses the function.
path_get_corresponding_texture_file(s) ==
    IF s \in DOMAIN CompanionTable
    THEN CompanionTable[s]
    ELSE path_get_corresponding_texture_file_full(s, NUL).ret

PathPending == [done |-> FALSE, ret |-> NULL, allocated |-> FALSE, block |-> NoBlock]

NotExited == -1
ArgsIdle ==
    /\ argv = <<>> /\ stream = <<>> /\ unread = <<>> /\ eof = FALSE
    /\ input = <<>> /\ exit_status = NotExited /\ window = FALSE
PathIdle == src = <<>> /\ garbage = NUL /\ result = PathPending
NoCheck == [kind |-> "none"]
LoopIdle ==
    /\ mtime = <<>> /\ last_modified = 0 /\ models = <<>>
    /\ time_since_last_modified_check = 0 /\ next_handle = 1 /\ released = {}
    /\ touches = 0 /\ seen_mtime = <<>> /\ chk = NoCheck /\ loader_args = {}
    /\ drawn = <<>>

InitPath ==
    /\ src \in SeqsUpTo(PathChars, MaxPathLen)
    /\ garbage \in {NUL, 120}
    /\ result = PathPending
    /\ pc = "path"
    /\ model_filepaths = <<>>
    /\ ArgsIdle
    /\ LoopIdle

CallPath ==
    /\ pc = "path"
    /\ result = PathPending
    /\ result' = path_get_corresponding_texture_file_full(src, garbage)
    /\ UNCHANGED <<src, garbage, pc, model_filepaths, argsVars, loopVars>>

NextPath == CallPath
SpecPath == InitPath /\ [][NextPath]_vars

PathCalled == result.done
Touched(m) == {w[1] : w \in {m.writes[i] : i \in DOMAIN m.writes}} \cup m.reads

\* C1: for a path of length L >= 3 the call returns the first L-3 characters
\* of the path followed by "aseprite".
C1_CompanionPath ==
    (PathCalled /\ Len(src) >= 3) =>
        result.ret = Ptr(SubSeq(src, 1, Len(src) - 3) \o ASEPRITE)
C1_Witness == PathCalled /\ src = <<111, 98, 106>> /\ result.ret = Ptr(ASEPRITE)

\* C2: for a path of length 0, 1 or 2 the call returns NULL and allocates
\* and writes nothing.
C2_ShortIsAbsent ==
    (PathCalled /\ Len(src) < 3) =>
        /\ result.ret = NULL
        /\ ~result.allocated
        /\ Touched(result.block) = {}
C2_Witness == PathCalled /\ Len(src) = 2 /\ result.ret = NULL

\* C10: for a path of length L >= 3 the call allocates L+6 bytes and touches
\* only indices 0..L+5 of them; the terminator goes to index L-3, the
\* appended literal ends with its NUL at index L+5, and the returned string
\* has length L+5.
C10_InBounds ==
    (PathCalled /\ Len(src) >= 3) =>
        LET L == Len(src)
            b == result.block
        IN  /\ result.allocated /\ b.size = L + 6
            /\ Touched(b) \subseteq 0..(L + 5)
            /\ b.writes[L + 1] = <<L - 3, NUL>>
            /\ b.writes[Len(b.writes)] = <<L + 5, NUL>>
            /\ \A i \in DOMAIN b.writes : b.writes[i][1] <= L + 5
            /\ b.bytes[L + 5] = NUL
            /\ ~result.ret.null /\ Len(result.ret.str) = L + 5
C10_Witness ==
    /\ PathCalled /\ Len(src) = 3 /\ garbage # NUL
    /\ result.block.writes[4] = <<0, NUL>>
    /\ (8 \in Touched(result.block))
(***************************************************************************)
(* main, lines 103-139: the model paths come from the arguments or, when   *)
(* there are none, from stdin.                                             *)
(***************************************************************************)
\* ' ', '\n', '\t'
SPACE == 32
Whitespace == {32, 10, 9}
\* what stdin may deliver: whitespace and 'a'
StreamChars == Whitespace \cup {97}
\* "m.obj" and "-g"
ArgChoices == {<<109, 46, 111, 98, 106>>, <<45, 103>>}
DASH == 45

MaxArgs == 2
MaxStream == 4

\* StringVector (string_vector.h): an ordered list of strings; append stores
\* the first data_length bytes of data as a new string.
stringvec_init == <<>>
stringvec_append(vec, data, data_length) == Append(vec, SubSeq(data, 1, data_length))
stringvec_count(vec) == Len(vec)
stringvec_get(vec, i) == IF i < Len(vec) THEN Ptr(vec[i + 1]) ELSE NULL

InitArgs ==
    /\ argv \in SeqsUpTo(ArgChoices, MaxArgs)
    /\ stream \in SeqsUpTo(StreamChars, MaxStream)
    /\ unread = stream
    /\ eof = FALSE
    /\ input = <<>>
    /\ exit_status = NotExited
    /\ window = FALSE
    /\ pc = "args"
    /\ model_filepaths = stringvec_init
    /\ PathIdle
    /\ LoopIdle

\* Lines 106-115, one iteration: argv[i] is the argument after those already
\* appended.
ParseArg ==
    /\ pc = "args"
    /\ Len(model_filepaths) < Len(argv)
    /\ LET arg == argv[Len(model_filepaths) + 1]
       IN  IF Head(arg) = DASH
           THEN /\ exit_status' = 1
                /\ pc' = "exited"
                /\ UNCHANGED model_filepaths
           ELSE /\ model_filepaths' = stringvec_append(model_filepaths, arg, strlen(arg))
                /\ UNCHANGED <<pc, exit_status>>
    /\ UNCHANGED <<pathVars, argv, stream, unread, eof, input, window, loopVars>>

\* Line 118: the arguments are consumed; stdin is read only when they gave
\* no path.
ArgsDone ==
    /\ pc = "args"
    /\ Len(model_filepaths) = Len(argv)
    /\ pc' = IF stringvec_count(model_filepaths) = 0 THEN "stdin" ELSE "count"
    /\ UNCHANGED <<pathVars, model_filepaths, argsVars, loopVars>>

\* fread(&read_char, 1, 1, stdin) with read_char = 0 before it: at the end
\* of the stream nothing is stored and the stream's EOF flag is set.
fread1(rest) ==
    IF rest = <<>>
    THEN [read_char |-> NUL, rest |-> rest, eof |-> TRUE]
    ELSE [read_char |-> Head(rest), rest |-> Tail(rest), eof |-> FALSE]

IsSeparator(read_char) == read_char = SPACE

\* Lines 121-130, one iteration of while (!feof(stdin)).  input is the part
\* input[0..input_used-1] of the 1000-byte buffer; the streams here stay far
\* below its size.
ReadChar ==
    /\ pc = "stdin"
    /\ ~eof
    /\ LET r == fread1(unread)
       IN  /\ unread' = r.rest
           /\ eof' = r.eof
           /\ IF IsSeparator(r.read_char)
              THEN /\ model_filepaths' =
                        stringvec_append(model_filepaths, input, Len(input))
                   /\ input' = <<>>
              ELSE /\ input' = Append(input, r.read_char)
                   /\ UNCHANGED model_filepaths
    /\ UNCHANGED <<pathVars, pc, argv, stream, exit_status, window, loopVars>>

\* Lines 132-133, after the loop.
StdinDone ==
    /\ pc = "stdin"
    /\ eof
    /\ model_filepaths' =
          IF Len(input) > 0
          THEN stringvec_append(model_filepaths, input, Len(input) - 1)
          ELSE model_filepaths
    /\ pc' = "count"
    /\ UNCHANGED <<pathVars, argsVars, loopVars>>

\* Lines 136-142: no path is an error; otherwise the window is created and
\* main goes on to the render loop.
CheckCount ==
    /\ pc = "count"
    /\ IF stringvec_count(model_filepaths) = 0
       THEN /\ exit_status' = 1
            /\ pc' = "exited"
            /\ UNCHANGED window
       ELSE /\ window' = TRUE
            /\ pc' = "render"
            /\ UNCHANGED exit_status
    /\ UNCHANGED <<pathVars, model_filepaths, argv, stream, unread, eof, input, loopVars>>

NextArgs == ParseArg \/ ArgsDone \/ ReadChar \/ StdinDone \/ CheckCount
SpecArgs == InitArgs /\ [][NextArgs]_vars

RECURSIVE Tokens(_, _)
\* The whitespace-delimited tokens of s, in order; cur is the token begun.
Tokens(s, cur) ==
    IF s = <<>> THEN (IF cur = <<>> THEN <<>> ELSE <<cur>>)
    ELSE IF Head(s) \in Whitespace
         THEN (IF cur = <<>> THEN <<>> ELSE <<cur>>) \o Tokens(Tail(s), <<>>)
         ELSE Tokens(Tail(s), Append(cur, Head(s)))

ArgsSettled == pc \in {"render", "exited"}

\* C7: when the arguments and stdin supply no path, main reports the error
\* and returns non-zero without creating the window.
C7_NoPathsIsFatal ==
    (ArgsSettled /\ argv = <<>> /\ Tokens(stream, <<>>) = <<>>) =>
        (pc = "exited" /\ exit_status # 0 /\ ~window)

\* C8: with no arguments, the paths read from stdin are the
\* whitespace-delimited tokens of the stream, in order.
C8_StdinTokens ==
    (ArgsSettled /\ argv = <<>>) =>
        /\ model_filepaths = Tokens(stream, <<>>)
        /\ \A i \in DOMAIN model_filepaths :
              /\ model_filepaths[i] # <<>>
              /\ \A k \in DOMAIN model_filepaths[i] :
                    model_filepaths[i][k] \notin Whitespace \cup {NUL}
(***************************************************************************)
(* main, lines 141-264: the startup load and the render loop.              *)
(* The renderer hands out resource handles 1, 2, ...; DefaultTexture is    *)
(* the texture of a model no aseprite texture was applied to.  Times of    *)
(* the frame clock are in milliseconds.                                    *)
(***************************************************************************)
ModelPathChoices == {<<PathM, PathN>>, <<ShortPath>>}

MODIFIED_CHECK_COOLDOWN_MS == 500
FrameTimes == {300, 600}
DefaultTexture == 0

MaxTime == 2
MaxTouches == 2

WatchedFiles(paths) ==
    {paths[i] : i \in DOMAIN paths} \cup
    {path_get_corresponding_texture_file(paths[i]).str :
        i \in {k \in DOMAIN paths : ~path_get_corresponding_texture_file(paths[k]).null}}

\* What loading the files of slot i does: whether LoadModel finds a usable
\* model, and whether the texture load gives a texture ("ok"), gives none
\* ("fail") or brings the process down ("crash": possible only when the
\* loader is handed a null path).
OutcomesOf(paths) ==
    {o \in [DOMAIN paths -> [model : BOOLEAN, tex : {"ok", "fail", "crash"}]] :
        \A i \in DOMAIN paths :
            IF path_get_corresponding_texture_file(paths[i]).null
            THEN o[i].tex # "ok"
            ELSE o[i].tex # "crash"}

\* The same, computed once for each list of paths main is run with.
OutcomesTable == [paths \in ModelPathChoices |-> OutcomesOf(paths)]
Outcomes(paths) == OutcomesTable[paths]

\* raylib's LoadModel always returns a Model; valid tells whether it holds
\* the file's geometry.
LoadModel(h, ok) == [id |-> h, valid |-> ok, texture |-> DefaultTexture]

\* aseprite_load_as_image: an image, no image, or no return at all.
aseprite_load_as_image(filepath, tex) ==
    IF filepath.null
    THEN (IF tex = "crash" THEN "crash" ELSE "none")
    ELSE (IF tex = "ok" THEN "image" ELSE "none")

\* Lines 27-39.  h is the handle a new texture gets.
try_load_corresponding_texture(filepath, model, tex, h) ==
    LET image == aseprite_load_as_image(filepath, tex)
    IN  IF image = "crash" THEN [crashed |-> TRUE, model |-> model]
        ELSE IF image = "none" THEN [crashed |-> FALSE, model |-> model]
        ELSE [crashed |-> FALSE, model |-> [model EXCEPT !.texture = h]]

\* ModelVector (model_vector.h): an ordered list of Models.
modelvec_init == <<>>
modelvec_append(vec, model) == Append(vec, model)
\* What modelvec_free releases: the models it holds.
modelvec_handles(vec) == {vec[i].id : i \in DOMAIN vec}

RECURSIVE load_loop(_, _, _, _, _, _)
\* Lines 47-59 from index i on.  The renderer's handles are fresh and
\* otherwise arbitrary: iteration i takes h for its model and keeps h + 1
\* for its texture, used or not.
load_loop(paths, i, vec, h, args, o) ==
    LET model_filepath == stringvec_get(paths, i)
    IN  IF model_filepath.null
        THEN [vec |-> vec, next |-> h, args |-> args, crashed |-> FALSE]
        ELSE LET model == LoadModel(h, o[i + 1].model)
                 texture_filepath ==
                     path_get_corresponding_texture_file(model_filepath.str)
                 r == try_load_corresponding_texture(
                          texture_filepath, model, o[i + 1].tex, h + 1)
                 given == args \cup {texture_filepath}
             IN  IF r.crashed
                 THEN [vec |-> vec, next |-> h + 2, args |-> given, crashed |-> TRUE]
                 ELSE load_loop(paths, i + 1, modelvec_append(vec, r.model),
                                h + 2, given, o)

\* Lines 43-61.
load_model_data_from_files(paths, h, args, o) ==
    load_loop(paths, 0, modelvec_init, h, args, o)

\* Lines 63-68: fs holds st_mtim.tv_sec of the files stat succeeds on.
file_last_modified(fs, filepath) ==
    IF filepath \in DOMAIN fs THEN fs[filepath] ELSE 0

max(a, b) == IF a > b THEN a ELSE b

RECURSIVE scan_loop(_, _, _, _)
\* Lines 81-98 from index i on.
scan_loop(paths, fs, i, last_modification) ==
    LET model_filepath == stringvec_get(paths, i)
    IN  IF model_filepath.null THEN last_modification
        ELSE LET texture_filepath ==
                     path_get_corresponding_texture_file(model_filepath.str)
                 m1 == max(last_modification,
                           file_last_modified(fs, model_filepath.str))
             IN  IF texture_filepath.null
                 THEN scan_loop(paths, fs, i + 1, m1)
                 ELSE scan_loop(paths, fs, i + 1,
                          max(m1, file_last_modified(fs, texture_filepath.str)))

\* Lines 76-101.
get_most_recent_file_modification(paths, fs) == scan_loop(paths, fs, 0, 0)

ReloadNeededMut(new_last_modified, last) == new_last_modified >= last
\* Line 177.
ReloadNeeded(new_last_modified, last) == new_last_modified > last

CooldownOver(t) == t > MODIFIED_CHECK_COOLDOWN_MS

Init ==
    /\ model_filepaths \in ModelPathChoices
    /\ mtime = [f \in WatchedFiles(model_filepaths) |-> 1]
    /\ last_modified = 0
    /\ models = modelvec_init
    /\ time_since_last_modified_check = 0
    /\ next_handle = 1
    /\ released = {}
    /\ touches = 0
    /\ seen_mtime = mtime
    /\ chk = NoCheck
    /\ loader_args = {}
    /\ drawn = <<>>
    /\ pc = "render"
    /\ PathIdle
    /\ ArgsIdle

\* The world outside: a watched file is written or replaced, which sets the
\* modification time stat reports for it.
Touch(f, t) ==
    /\ pc \in {"render", "loop"}
    /\ touches < MaxTouches
    /\ t # mtime[f]
    /\ mtime' = [mtime EXCEPT ![f] = t]
    /\ touches' = touches + 1
    /\ UNCHANGED <<pathVars, argsVars, pc, model_filepaths, last_modified, models,
                   time_since_last_modified_check, next_handle, released,
                   seen_mtime, chk, loader_args, drawn>>

\* Lines 145-163.
Startup(o) ==
    /\ pc = "render"
    /\ LET l == load_model_data_from_files(model_filepaths, next_handle, loader_args, o)
       IN  /\ last_modified' = get_most_recent_file_modification(model_filepaths, mtime)
           /\ seen_mtime' = mtime
           /\ models' = l.vec
           /\ next_handle' = l.next
           /\ loader_args' = l.args
           /\ pc' = IF l.crashed THEN "crashed" ELSE "loop"
    /\ time_since_last_modified_check' = 0
    /\ UNCHANGED <<pathVars, argsVars, model_filepaths, mtime, released, touches,
                   chk, drawn>>

\* The draw pass, lines 242-250.
DrawPass(vec) == [i \in DOMAIN vec |-> vec[i].id]

\* Whether a frame that takes dt reloads (lines 170 and 177).
Reloads(dt) ==
    /\ CooldownOver(time_since_last_modified_check + dt)
    /\ ReloadNeeded(get_most_recent_file_modification(model_filepaths, mtime),
                    last_modified)

\* The load outcomes a frame depends on: none when it does not reload.
NoOutcome == <<>>
FrameOutcomes(dt) ==
    IF pc = "loop" /\ Reloads(dt) THEN Outcomes(model_filepaths) ELSE {NoOutcome}

\* Lines 166-256: one frame that takes dt of frame time; o is NoOutcome
\* when the frame does not reload.
Frame(dt, o) ==
    /\ pc = "loop"
    /\ o \in FrameOutcomes(dt)
    /\ LET t == time_since_last_modified_check + dt
       IN  /\ time_since_last_modified_check' = IF CooldownOver(t) THEN 0 ELSE t
           /\ seen_mtime' = IF CooldownOver(t) THEN mtime ELSE seen_mtime
           /\ chk' = IF CooldownOver(t)
                     THEN [kind |-> "check", changed |-> mtime # seen_mtime,
                           reloaded |-> o # NoOutcome, outcome |-> o]
                     ELSE chk
    /\ IF o # NoOutcome
       THEN \E l \in {load_model_data_from_files(model_filepaths, next_handle,
                                                 loader_args, o)} :
                /\ released' = released \cup modelvec_handles(models)
                /\ models' = l.vec
                /\ next_handle' = l.next
                /\ loader_args' = l.args
                /\ last_modified' =
                      IF l.crashed THEN last_modified
                      ELSE get_most_recent_file_modification(model_filepaths, mtime)
                /\ pc' = IF l.crashed THEN "crashed" ELSE "loop"
                /\ drawn' = IF l.crashed THEN drawn ELSE DrawPass(l.vec)
       ELSE /\ drawn' = DrawPass(models)
            /\ UNCHANGED <<released, models, next_handle, loader_args,
                           last_modified, pc>>
    /\ UNCHANGED <<pathVars, argsVars, model_filepaths, mtime, touches>>

Next ==
    \/ \E o \in Outcomes(model_filepaths) : Startup(o)
    \/ \E dt \in FrameTimes : \E o \in FrameOutcomes(dt) : Frame(dt, o)
    \/ \E f \in DOMAIN mtime, t \in 1..MaxTime : Touch(f, t)
Spec == Init /\ [][Next]_vars
\* A step of Frame that made the modification check, and one that reloaded.
CheckStep ==
    pc = "loop" /\ touches' = touches /\ time_since_last_modified_check' = 0
ReloadStep == CheckStep /\ chk'.reloaded

\* C3: when a reload fails to load a slot's model (or texture), the slot
\* still holds the valid resource it held before, unreleased, and the draw
\* pass that follows draws it.
C3_FailedLoadKeepsResource ==
    [][(ReloadStep /\ pc' = "loop") =>
        \A i \in DOMAIN models :
            /\ (models[i].valid /\ ~chk'.outcome[i].model) =>
                  /\ models'[i].id = models[i].id
                  /\ models[i].id \notin released'
                  /\ drawn'[i] = models[i].id
            /\ (models[i].texture # DefaultTexture /\ chk'.outcome[i].tex = "fail") =>
                  models'[i].texture = models[i].texture]_vars

\* C4: when the modification time of any one watched file is above what it
\* was at the previous check, the check reloads.
C4_AnyIncreaseReloads ==
    [][(CheckStep /\ \E f \in DOMAIN mtime : mtime[f] > seen_mtime[f])
        => chk'.reloaded]_vars

\* C5: a check that finds every watched file's modification time as the
\* previous check found it reloads nothing: nothing is released or loaded,
\* the slots keep their handles and last_modified keeps its value.
C5_NoChangeNoReload ==
    [][(CheckStep /\ mtime = seen_mtime) =>
        /\ ~chk'.reloaded
        /\ models' = models
        /\ released' = released
        /\ next_handle' = next_handle
        /\ loader_args' = loader_args
        /\ last_modified' = last_modified]_vars
C5_Witness ==
    /\ chk.kind = "check" /\ ~chk.changed /\ ~chk.reloaded
    /\ touches > 0 /\ last_modified > 1
    /\ Len(models) = 2 /\ drawn = DrawPass(models)

\* C6: with two model paths whose textures are loaded, a check that finds
\* only the second model file's modification time increased reloads the
\* second slot's model and nothing else.
C6_OnlySecondModelReloads ==
    [][(/\ CheckStep
        /\ model_filepaths = <<PathM, PathN>>
        /\ \A i \in DOMAIN models : models[i].texture # DefaultTexture
        /\ mtime[PathN] > seen_mtime[PathN]
        /\ \A f \in DOMAIN mtime \ {PathN} : mtime[f] = seen_mtime[f])
        => /\ chk'.reloaded
           /\ models'[1] = models[1]
           /\ models'[2].texture = models[2].texture
           /\ models'[2].id # models[2].id]_vars

\* C9: for a model path shorter than 3 characters the absent companion path
\* is never given to a loader, nothing goes wrong, and the slot's model is
\* loaded and appended.
C9_ShortPathNoTexture ==
    (pc # "render" /\ \E i \in DOMAIN model_filepaths : Len(model_filepaths[i]) < 3) =>
        /\ NULL \notin loader_args
        /\ pc # "crashed"
        /\ Len(models) = Len(model_filepaths)
====
